---- MODULE Spec2Model ----
(***************************************************************************)
(* Model of pt_br_spell_corrector.py: the n-gram generator, the            *)
(* uniqueness filter, the SyntaxSimilarity index and its matcher.          *)
(*                                                                         *)
(* A Python str is a sequence of one-character strings.  A Python float    *)
(* 2*C/(A+B) is the exact fraction [num, den]; for the small integers      *)
(* involved the correctly rounded quotient orders and equates exactly as   *)
(* the fraction does.  A Python value that is not of the expected type is  *)
(* a record [type, val], so that isinstance() is a test of the type field. *)
(***************************************************************************)
EXTENDS Integers, Sequences, FiniteSets, TLC

(* ---------------------------------------------------------------------- *)
(* Bounds                                                                  *)
(* ---------------------------------------------------------------------- *)
MaxWords == 3       \* longest corpus handed to the constructor
MaxN == 3           \* largest n-gram length tried
MaxStrLen == 6      \* longest string handed to ngrams_generator directly
MaxGrams == 5       \* longest list handed to remove_repetitive_ngrams directly

DefaultN == 2       \* default of the parameter n of ngrams_generator

None == "None"

(* ---------------------------------------------------------------------- *)
(* Inputs                                                                  *)
(* ---------------------------------------------------------------------- *)
casa == <<"c", "a", "s", "a">>
caza == <<"c", "a", "z", "a">>
vaca == <<"v", "a", "c", "a">>
banana == <<"b", "a", "n", "a", "n", "a">>

Vocabulary == {<<"a">>, casa, caza, vaca}

Queries == Vocabulary \cup {<<>>, <<"c", "a">>, <<"a", "a", "a">>, <<"c", "a", "s">>}

NValues == -1 .. MaxN

NInputs == [type : {"int"}, val : NValues] \cup {[type |-> "str", val |-> 2]}

SeqUpTo(S, k) == UNION {[1..m -> S] : m \in 0..k}

StrItem(w) == [type |-> "str", val |-> w]

ValidCorpora ==
    {[type |-> "list", items |-> [i \in DOMAIN ws |-> StrItem(ws[i])]] :
        ws \in SeqUpTo(Vocabulary, MaxWords)}

InvalidCorpora ==
    { [type |-> "tuple", items |-> <<StrItem(casa)>>],
      [type |-> "list", items |-> <<StrItem(casa), [type |-> "int", val |-> <<"7">>]>>] }

Corpora == ValidCorpora \cup InvalidCorpora

Alphabet == {"a", "b", "n"}

Strings == SeqUpTo(Alphabet, MaxStrLen)

Grams == {<<"b", "a">>, <<"a", "n">>, <<"n", "a">>}

GramLists == SeqUpTo(Grams, MaxGrams)

(* ---------------------------------------------------------------------- *)
(* Python built-ins                                                        *)
(* ---------------------------------------------------------------------- *)
Max2(a, b) == IF a >= b THEN a ELSE b
Min2(a, b) == IF a <= b THEN a ELSE b

\* s[lo:hi]: a negative bound counts from the end, both are clamped
PySliceIndex(s, i) == IF i < 0 THEN Max2(i + Len(s), 0) ELSE Min2(i, Len(s))

PySlice(s, lo, hi) == SubSeq(s, PySliceIndex(s, lo) + 1, PySliceIndex(s, hi))

\* list.count
PyCount(l, x) == Cardinality({i \in DOMAIN l : l[i] = x})

\* set(l)
PySet(l) == {l[i] : i \in DOMAIN l}

(* ---------------------------------------------------------------------- *)
(* ngrams_generator                                                        *)
(* ---------------------------------------------------------------------- *)
\* range(len(string) - n + 1) is empty when its argument is not positive
ngrams_generator_short(string, n) ==
    [j \in 1 .. Max2(Len(string) - n, 0) |-> PySlice(string, j - 1, j - 1 + n)]

ngrams_generator(string, n) ==
    [j \in 1 .. Max2(Len(string) - n + 1, 0) |-> PySlice(string, j - 1, j - 1 + n)]

(* ---------------------------------------------------------------------- *)
(* remove_repetitive_ngrams                                                *)
(* ---------------------------------------------------------------------- *)
RECURSIVE remove_loop(_, _, _, _)
remove_loop(ngrams, i, unique_ngrams, seen_ngrams) ==
    IF i > Len(ngrams) THEN unique_ngrams
    ELSE LET ngram == ngrams[i] IN
         IF PyCount(ngrams, ngram) = 1 /\ ngram \notin seen_ngrams
         THEN remove_loop(ngrams, i + 1, Append(unique_ngrams, ngram),
                          seen_ngrams \cup {ngram})
         ELSE remove_loop(ngrams, i + 1, unique_ngrams, seen_ngrams)

RECURSIVE dedup_loop(_, _, _, _)
dedup_loop(ngrams, i, unique_ngrams, seen_ngrams) ==
    IF i > Len(ngrams) THEN unique_ngrams
    ELSE LET ngram == ngrams[i] IN
         IF ngram \notin seen_ngrams
         THEN dedup_loop(ngrams, i + 1, Append(unique_ngrams, ngram),
                         seen_ngrams \cup {ngram})
         ELSE dedup_loop(ngrams, i + 1, unique_ngrams, seen_ngrams)

remove_repetitive_ngrams_dedup(ngrams) == dedup_loop(ngrams, 1, <<>>, {})

remove_repetitive_ngrams(ngrams) == remove_loop(ngrams, 1, <<>>, {})

(* ---------------------------------------------------------------------- *)
(* SyntaxSimilarity                                                        *)
(* ---------------------------------------------------------------------- *)
VARIABLES
    phase,      \* "new": not constructed, "ready": __init__ returned, "failed": __init__ raised
    n,          \* self._n
    words,      \* self._words: a dict, as the sequence of its items in insertion order
    op,         \* the operation executed last
    raised,     \* the exception it ended with, or None
    input_word, \* pt_br_spell_checker: its argument
    ngrams_input_word,
    ngrams_input_word_without_repetitive_elements,
    A,
    result,     \* the dict result, as the sequence of its items
    ret,        \* the returned pair [key_best_value, best_value]
    fcall       \* the last direct call of one of the two module-level functions

objvars == <<phase, n, words>>
callvars == <<input_word, ngrams_input_word,
              ngrams_input_word_without_repetitive_elements, A, result, ret>>
vars == <<phase, n, words, op, raised, input_word, ngrams_input_word,
          ngrams_input_word_without_repetitive_elements, A, result, ret, fcall>>

NoCall ==
    /\ input_word = None
    /\ ngrams_input_word = None
    /\ ngrams_input_word_without_repetitive_elements = None
    /\ A = None
    /\ result = None
    /\ ret = None

Init ==
    /\ phase = "new"
    /\ n = None
    /\ words = None
    /\ op = "none"
    /\ raised = None
    /\ NoCall
    /\ fcall = [f |-> "none"]

routine(word, k) ==
    LET ngrams == ngrams_generator(word, k)
        ngrams_without_repetitive_elements == remove_repetitive_ngrams(ngrams)
    IN [ngrams |-> ngrams,
        without_repetitive_ngrams |-> ngrams_without_repetitive_elements,
        ngrams_size |-> Len(ngrams),
        B |-> Len(ngrams_without_repetitive_elements)]

\* d[key] = value: a new key goes last, an old key keeps its place
dict_set(d, key, value) ==
    IF \E i \in DOMAIN d : d[i].key = key
    THEN [i \in DOMAIN d |-> IF d[i].key = key THEN [key |-> key, value |-> value] ELSE d[i]]
    ELSE Append(d, [key |-> key, value |-> value])

dict_keys(d) == [i \in DOMAIN d |-> d[i].key]

dict_get(d, key) == d[CHOOSE i \in DOMAIN d : d[i].key = key].value

\* {word: self._routine(word=word) for word in words}
RECURSIVE words_loop(_, _, _, _)
words_loop(items, i, d, k) ==
    IF i > Len(items) THEN d
    ELSE words_loop(items, i + 1, dict_set(d, items[i].val, routine(items[i].val, k)), k)

\* the three isinstance() tests of __init__, each of which raises ValueError
init_rejects(words_arg, n_arg) ==
    \/ words_arg.type # "list"
    \/ \E i \in DOMAIN words_arg.items : words_arg.items[i].type # "str"
    \/ n_arg.type # "int"

SyntaxSimilarity_init(words_arg, n_arg) ==
    /\ phase = "new"
    /\ op' = "__init__"
    /\ IF init_rejects(words_arg, n_arg)
       THEN /\ phase' = "failed"
            /\ raised' = "ValueError"
            /\ UNCHANGED <<n, words>>
       ELSE /\ phase' = "ready"
            /\ raised' = None
            /\ n' = n_arg.val
            /\ words' = words_loop(words_arg.items, 1, <<>>, n_arg.val)
    /\ UNCHANGED <<callvars, fcall>>

n_setter(value) ==
    /\ phase = "ready"
    /\ op' = "n.setter"
    /\ IF value.type # "int"
       THEN raised' = "ValueError" /\ UNCHANGED n
       ELSE raised' = None /\ n' = value.val
    /\ input_word' = None
    /\ ngrams_input_word' = None
    /\ ngrams_input_word_without_repetitive_elements' = None
    /\ A' = None
    /\ result' = None
    /\ ret' = None
    /\ UNCHANGED <<phase, words, fcall>>

(* ---------------------------------------------------------------------- *)
(* Scoring and selection                                                   *)
(* ---------------------------------------------------------------------- *)
edit_distance_no_a(a, b, c) == [num |-> 2 * c, den |-> b]

edit_distance_half(a, b, c) == [num |-> c, den |-> a + b]

edit_distance_guarded(a, b, c) ==
    IF a + b = 0 THEN [num |-> 0, den |-> 1] ELSE [num |-> 2 * c, den |-> a + b]

\* 2 * C / (A + B); den = 0 is the division that raises ZeroDivisionError
edit_distance(a, b, c) == [num |-> 2 * c, den |-> a + b]

\* x > y for two fractions with positive denominators
frac_gt(x, y) == x.num * y.den > y.num * x.den

frac_ge(x, y) == x.num * y.den >= y.num * x.den

\* the loop over self.words.keys(); it stops at the first division by zero
RECURSIVE score_loop(_, _, _, _, _)
score_loop(d, i, a, unique, res) ==
    IF i > Len(d) THEN [raised |-> None, result |-> res]
    ELSE LET word == d[i].key
             b == dict_get(d, word).B
             c == Cardinality(PySet(unique)
                              \cap PySet(dict_get(d, word).without_repetitive_ngrams))
             e == edit_distance(a, b, c)
         IN IF e.den = 0
            THEN [raised |-> "ZeroDivisionError", result |-> res]
            ELSE score_loop(d, i + 1, a, unique, dict_set(res, word, e))

\* max(result, key=result.get) keeps the first of the largest values
RECURSIVE max_loop(_, _, _)
max_loop(res, i, best) ==
    IF i > Len(res) THEN best
    ELSE max_loop(res, i + 1, IF frac_gt(res[i].value, res[best].value) THEN i ELSE best)

RECURSIVE max_loop_last(_, _, _)
max_loop_last(res, i, best) ==
    IF i > Len(res) THEN best
    ELSE max_loop_last(res, i + 1, IF frac_ge(res[i].value, res[best].value) THEN i ELSE best)

max_key_last(res) == res[max_loop_last(res, 2, 1)].key

max_key(res) == res[max_loop(res, 2, 1)].key

select_best_default(res) ==
    IF Len(res) = 0
    THEN [raised |-> None,
          ret |-> [key_best_value |-> <<>>, best_value |-> [num |-> 0, den |-> 1]]]
    ELSE [raised |-> None,
          ret |-> [key_best_value |-> max_key(res),
                   best_value |-> dict_get(res, max_key(res))]]

\* max() of an empty dict raises ValueError
select_best(res) ==
    IF Len(res) = 0
    THEN [raised |-> "ValueError", ret |-> None]
    ELSE [raised |-> None,
          ret |-> [key_best_value |-> max_key(res),
                   best_value |-> dict_get(res, max_key(res))]]

checker_call(q) ==
    LET g == ngrams_generator(q, DefaultN)
        u == remove_repetitive_ngrams(g)
        s == score_loop(words, 1, Len(u), u, <<>>)
        b == select_best(s.result)
    IN /\ op' = "pt_br_spell_checker"
       /\ input_word' = q
       /\ ngrams_input_word' = g
       /\ ngrams_input_word_without_repetitive_elements' = u
       /\ A' = Len(u)
       /\ result' = s.result
       /\ IF s.raised # None
          THEN raised' = s.raised /\ ret' = None
          ELSE raised' = b.raised /\ ret' = b.ret

pt_br_spell_checker_caching(q) ==
    /\ phase = "ready"
    /\ checker_call(q)
    /\ words' = dict_set(words, q, routine(q, DefaultN))
    /\ UNCHANGED <<phase, n, fcall>>

pt_br_spell_checker(q) ==
    /\ phase = "ready"
    /\ checker_call(q)
    /\ UNCHANGED <<phase, n, words, fcall>>

Next ==
    \/ \E words_arg \in Corpora, n_arg \in NInputs : SyntaxSimilarity_init(words_arg, n_arg)
    \/ \E value \in NInputs : n_setter(value)
    \/ \E q \in Queries : pt_br_spell_checker(q)

Spec == Init /\ [][Next]_vars

(* ---------------------------------------------------------------------- *)
(* Direct calls of the two module-level functions: the arguments are       *)
(* chosen initially and the call fills in the result.                      *)
(* ---------------------------------------------------------------------- *)
InitFn ==
    /\ phase = "new"
    /\ n = None
    /\ words = None
    /\ op = "none"
    /\ raised = None
    /\ NoCall
    /\ \/ \E s \in Strings, k \in NValues :
             fcall = [f |-> "ngrams_generator", done |-> FALSE, string |-> s, n |-> k,
                      out |-> None]
       \/ \E l \in GramLists :
             fcall = [f |-> "remove_repetitive_ngrams", done |-> FALSE, ngrams |-> l,
                      out |-> None]

call_ngrams_generator ==
    /\ fcall.f = "ngrams_generator"
    /\ ~fcall.done
    /\ fcall' = [fcall EXCEPT !.done = TRUE, !.out = ngrams_generator(fcall.string, fcall.n)]
    /\ UNCHANGED <<phase, n, words, op, raised, callvars>>

call_remove_repetitive_ngrams ==
    /\ fcall.f = "remove_repetitive_ngrams"
    /\ ~fcall.done
    /\ fcall' = [fcall EXCEPT !.done = TRUE, !.out = remove_repetitive_ngrams(fcall.ngrams)]
    /\ UNCHANGED <<phase, n, words, op, raised, callvars>>

NextFn ==
    \/ call_ngrams_generator
    \/ call_remove_repetitive_ngrams

SpecFn == InitFn /\ [][NextFn]_vars

(* ---------------------------------------------------------------------- *)
(* Vocabulary of the properties                                            *)
(* ---------------------------------------------------------------------- *)
Called == phase = "ready" /\ op = "pt_br_spell_checker"

Returned == Called /\ raised = None

Occurrences(l, x) == Cardinality({i \in DOMAIN l : l[i] = x})

Elements(l) == {l[i] : i \in DOMAIN l}

\* the n-grams that occur exactly once in l
OnceSet(l) == {x \in Elements(l) : Occurrences(l, x) = 1}

FirstIndex(l, x) == CHOOSE i \in DOMAIN l : l[i] = x /\ \A j \in 1 .. i - 1 : l[j] # x

IndexWords == {words[i].key : i \in DOMAIN words}

Position(w) == CHOOSE i \in DOMAIN words : words[i].key = w

Stored(w) == words[Position(w)].value

\* A, B and C of the score formula, from the query's n-grams and the stored profiles
QueryA == Cardinality(OnceSet(ngrams_input_word))

WordB(w) == Stored(w).B

WordC(w) == Cardinality(OnceSet(ngrams_input_word)
                        \cap Elements(Stored(w).without_repetitive_ngrams))

\* score(v) <= score(w) and score(v) < score(w), for scores 2*C/(A+B) that are defined
ScoreLe(v, w) == WordC(v) * (QueryA + WordB(w)) <= WordC(w) * (QueryA + WordB(v))

ScoreLt(v, w) == WordC(v) * (QueryA + WordB(w)) < WordC(w) * (QueryA + WordB(v))

\* the fraction f equals 2*C/(A+B) of the word w
IsScoreOf(f, w) ==
    /\ f.den > 0
    /\ QueryA + WordB(w) > 0
    /\ f.num * (QueryA + WordB(w)) = 2 * WordC(w) * f.den

AllScoresDefined == \A w \in IndexWords : QueryA + WordB(w) > 0

\* every stored profile is the profile of its word for n-gram length k
IndexBuiltWith(k) == \A i \in DOMAIN words : words[i].value = routine(words[i].key, k)

(* ---------------------------------------------------------------------- *)
(* Properties                                                              *)
(* ---------------------------------------------------------------------- *)

\* C1: on a non-empty index, when every score 2*C/(A+B) is defined, the call
\* returns; every indexed word is scored 2*C/(A+B); the returned word has the
\* largest score, is the first such word in the index's order, and the
\* returned score is that largest score.
C1_BestMatchIsFirstMaximum ==
    /\ (Called /\ Len(words) > 0 /\ AllScoresDefined) => raised = None
    /\ Returned =>
         /\ Len(words) > 0
         /\ AllScoresDefined
         /\ dict_keys(result) = dict_keys(words)
         /\ \A i \in DOMAIN result : IsScoreOf(result[i].value, result[i].key)
         /\ ret.key_best_value \in IndexWords
         /\ IsScoreOf(ret.best_value, ret.key_best_value)
         /\ \A v \in IndexWords : ScoreLe(v, ret.key_best_value)
         /\ \A v \in IndexWords :
              Position(v) < Position(ret.key_best_value) => ScoreLt(v, ret.key_best_value)

\* a call that returned the first of two words tied for a positive maximum
C1_Witness ==
    /\ Returned
    /\ ret.best_value.num > 0
    /\ \E v \in IndexWords :
         /\ Position(ret.key_best_value) < Position(v)
         /\ ScoreLe(v, ret.key_best_value)
         /\ ScoreLe(ret.key_best_value, v)
    /\ \E v \in IndexWords : ScoreLt(v, ret.key_best_value)

\* C2: for an index built with a valid n (n >= 1; the stored n-grams, of which
\* there is at least one, are those of length n), the query's n-grams are
\* those of the index's n.
C2_QueryProfiledWithIndexN ==
    (/\ Called
     /\ n >= 1
     /\ IndexBuiltWith(n)
     /\ \E i \in DOMAIN words : Len(words[i].value.ngrams) > 0) =>
        ngrams_input_word = ngrams_generator(input_word, n)

\* C3: remove_repetitive_ngrams returns, in first-seen order and without
\* repetition, exactly the n-grams that occur once in its input.
C3_FilterKeepsExactlyTheOnceOnly ==
    (fcall.f = "remove_repetitive_ngrams" /\ fcall.done) =>
        LET in == fcall.ngrams
            out == fcall.out
        IN /\ \A i, j \in DOMAIN out : i # j => out[i] # out[j]
           /\ Elements(out) = OnceSet(in)
           /\ \A i, j \in DOMAIN out :
                i < j => FirstIndex(in, out[i]) < FirstIndex(in, out[j])
           /\ in = <<<<"b", "a">>, <<"a", "n">>, <<"n", "a">>, <<"a", "n">>, <<"n", "a">>>>
                => out = <<<<"b", "a">>>>

C3_Witness ==
    /\ fcall.f = "remove_repetitive_ngrams"
    /\ fcall.done
    /\ fcall.ngrams = <<<<"b", "a">>, <<"a", "n">>, <<"n", "a">>, <<"a", "n">>, <<"n", "a">>>>
    /\ fcall.out = <<<<"b", "a">>>>

\* C4: for n >= 1, ngrams_generator(s, n) has len(s)-n+1 elements when
\* len(s) >= n and none otherwise, and its i-th element is s[i : i+n].
C4_GeneratorSlidesAWindow ==
    (fcall.f = "ngrams_generator" /\ fcall.done /\ fcall.n >= 1) =>
        LET s == fcall.string
            k == fcall.n
            out == fcall.out
        IN /\ Len(out) = (IF Len(s) >= k THEN Len(s) - k + 1 ELSE 0)
           /\ \A i \in 0 .. Len(s) - k : out[i + 1] = [j \in 1 .. k |-> s[i + j]]

C4_Witness ==
    /\ fcall.f = "ngrams_generator"
    /\ fcall.done
    /\ fcall.string = banana
    /\ fcall.n = 3
    /\ fcall.out = <<<<"b", "a", "n">>, <<"a", "n", "a">>, <<"n", "a", "n">>, <<"a", "n", "a">>>>

\* C5: a returned score lies in [0, 1]; for every indexed word with
\* A + B > 0, 0 <= 2*C <= A + B.
C5_ScoreWithinUnitInterval ==
    /\ Returned =>
         /\ ret.best_value.den > 0
         /\ 0 <= ret.best_value.num
         /\ ret.best_value.num <= ret.best_value.den
    /\ Called =>
         \A w \in IndexWords :
            QueryA + WordB(w) > 0 =>
                (0 <= 2 * WordC(w) /\ 2 * WordC(w) <= QueryA + WordB(w))

\* a returned score strictly between 0 and 1
C5_Witness ==
    /\ Returned
    /\ 0 < ret.best_value.num
    /\ ret.best_value.num < ret.best_value.den

\* C6: on an index built with n = 2, a query equal to an indexed word with at
\* least one unique 2-gram returns the score 1; corpus [casa, caza, vaca]
\* and query caza return (caza, 1).
C6_IndexedWordScoresOne ==
    /\ (Called /\ IndexBuiltWith(2) /\ input_word \in IndexWords
          /\ Len(Stored(input_word).without_repetitive_ngrams) >= 1) =>
         /\ raised = None
         /\ ret.best_value.num = ret.best_value.den
         /\ QueryA = WordB(input_word)
         /\ WordC(input_word) = QueryA
    /\ (Called /\ IndexBuiltWith(2) /\ dict_keys(words) = <<casa, caza, vaca>>
          /\ input_word = caza) =>
         /\ raised = None
         /\ ret.key_best_value = caza
         /\ ret.best_value.num = ret.best_value.den

C6_Witness ==
    /\ Returned
    /\ IndexBuiltWith(2)
    /\ dict_keys(words) = <<casa, caza, vaca>>
    /\ input_word = caza
    /\ ret.key_best_value = caza

\* C7: on an index built from an empty corpus every call ends in an error
\* and returns nothing.
C7_EmptyIndexAlwaysFails ==
    (Called /\ Len(words) = 0) => (raised # None /\ ret = None)

C7_Witness == Called /\ Len(words) = 0 /\ raised = "ValueError" /\ Len(input_word) > 0

\* C8: a call of pt_br_spell_checker, whether it returns or raises, leaves the
\* indexed words, their stored profiles and n as they were.
C8_CheckerLeavesIndexAlone ==
    [][(\E q \in Queries : pt_br_spell_checker(q)) => UNCHANGED <<phase, n, words>>]_vars

\* a call that returned and a non-empty index that still is the one built
C8_Witness ==
    /\ Called
    /\ Len(words) = MaxWords
    /\ IndexBuiltWith(n)
    /\ raised = None

\* C9: a constructed index has n >= 1 in every state.
C9_NAtLeastOne == phase = "ready" => n >= 1

\* C10: on a non-empty index the call raises ZeroDivisionError, and returns
\* nothing, exactly when the query has no unique n-gram and some indexed word
\* has none; nothing else makes it fail.
C10_DivisionByZeroExactlyWhen ==
    (Called /\ Len(words) > 0) =>
        /\ raised \in {None, "ZeroDivisionError"}
        /\ (raised = "ZeroDivisionError") <=> (QueryA = 0 /\ \E w \in IndexWords : WordB(w) = 0)
        /\ (raised = "ZeroDivisionError") => ret = None

\* the call is aborted by a later word although the first word had a defined score
C10_Witness ==
    /\ Called
    /\ raised = "ZeroDivisionError"
    /\ Len(words) >= 2
    /\ WordB(words[1].key) > 0
    /\ Len(result) >= 1

====
